---- MODULE Spec2Model ----
(***************************************************************************)
(* Fair-queueing simulator: the driver of main.py runs a GPS, a Round      *)
(* Robin and a Deficit Round Robin simulator (simulator.py), one after the *)
(* other, on shallow copies of one time-sorted list of Packet objects.     *)
(*                                                                         *)
(* A Packet object is identified by its index in the sorted list; feeds    *)
(* and queues hold indices (references), and remaining_size, the one       *)
(* mutable field of a Packet, is a function of the index, shared by the    *)
(* three simulators as the objects are.  The variables time,               *)
(* packet_arrivals, flow_queues, sent_bits_per_flow,                       *)
(* packet_delays_per_flow and deficit_counters are the fields of the       *)
(* simulator whose run is executing (simulators[sim]); a simulator that    *)
(* has not run yet is in its constructed state, and the results of one     *)
(* that has returned are kept in results.  Sizes and times are integers    *)
(* and the data rate is 1, as the driver passes it, so the float           *)
(* arithmetic of the code is exact.                                        *)
(***************************************************************************)
EXTENDS Integers, Sequences, FiniteSets, TLC

\* ---------------------------------------------------------------- bounds
\* The number of packets of the trace, the sum of their sizes, the latest
\* arrival time and the quantum are bounded; the flow ids are drawn from FlowIds.
MaxPackets == 3
MaxWork == 4
MaxTime == 2
MaxQuantum == 2
FlowIds == {0, 1}

\* ------------------------------------------------------ program constants
\* main.py passes data_rate 1 to the three constructors.
data_rate == 1
\* sys.maxsize is 2^63 - 1 in the code; TLC's integers have 32 bits, so the
\* model uses the largest of them: like the code's value it is larger than
\* any clock value a run can reach.
sys_maxsize == 2147483647
\* Python's None (next_packet_time when the feed is empty); arrival times
\* are >= 0.
None == -1
\* simulators = [GPS, RR, DRR]
NumSims == 3

VARIABLES
    packets,                 \* the sorted list of Packet objects (flow, size, time)
    quantum,                 \* DeficitRoundRobinSimulator.quantum
    remaining_size,          \* Packet.remaining_size, by packet index
    sim,                     \* index into simulators of the one that runs
    pc,                      \* position in run
    time,                    \* self.time
    packet_arrivals,         \* self.packet_arrivals (the Arrival Feed)
    flow_queues,             \* self.flow_queues
    keys,                    \* self.flow_queues.keys(): the dict's insertion order
    sent_bits_per_flow,      \* self.sent_bits_per_flow
    packet_delays_per_flow,  \* self.packet_delays_per_flow
    deficit_counters,        \* self.deficit_counters (DRR)
    next_packet_time,        \* local of GPSSimulator.run
    time_until_next_packet,  \* local of GPSSimulator.run
    i,                       \* position of the for loop over the flows
    results,                 \* what main reads from each simulator after run
    finished,                \* history: packets in the order finish_packet was called
    pass_no,                 \* history: number of the current RR pass
    deadline,                \* history: RR, least (pass + rank - 1) seen at a pass start
    pass_sent,               \* history: RR, packets each flow sent in the current pass
    gps_diff,                \* history: GPS, per pair of flows, the units granted to
                             \* the first minus those to the second since both are
                             \* active, with the least and greatest value seen
    iter_start,              \* history: the feed's length, the number of finished
                             \* packets, the clock and the counters when the
                             \* current iteration of run's outer while started
    idle_skipped             \* history: the time the run has jumped over with no
                             \* packet queued

vars == <<packets, quantum, remaining_size, sim, pc, time, packet_arrivals,
          flow_queues, keys, sent_bits_per_flow, packet_delays_per_flow,
          deficit_counters, next_packet_time, time_until_next_packet, i,
          results, finished, pass_no, deadline, pass_sent, gps_diff, iter_start,
          idle_skipped>>

\* ------------------------------------------------------------- helpers
Max(a, b) == IF a >= b THEN a ELSE b
Min(a, b) == IF a <= b THEN a ELSE b
MinOf(S) == CHOOSE x \in S : \A y \in S : x <= y

RECURSIVE SumSeq(_)
SumSeq(s) == IF s = <<>> THEN 0 ELSE Head(s) + SumSeq(Tail(s))

\* ------------------------------------------------------------- inputs
\* packet_arrivals.sort(key=lambda x: x.time): ascending times
IsSorted(tm) == \A k \in 1..(Len(tm) - 1) : tm[k] <= tm[k + 1]

\* The traces of n packets: flows, positive sizes and sorted arrival times
Inputs(n) ==
    {[k \in 1..n |-> [flow |-> fl[k], size |-> sz[k], time |-> tm[k]]] :
        fl \in [1..n -> FlowIds],
        sz \in {x \in [1..n -> 1..MaxWork] : SumSeq(x) <= MaxWork},
        tm \in {x \in [1..n -> 0..MaxTime] : IsSorted(x)}}

\* Mutant of FlowKeys: the flows in ascending order of their ids
FlowKeys_by_id(pk) ==
    LET fs == {pk[k].flow : k \in 1..Len(pk)}
        S[n \in 0..Cardinality(fs)] ==
            IF n = 0 THEN <<>>
            ELSE Append(S[n - 1],
                        CHOOSE f \in fs : Cardinality({g \in fs : g < f}) = n - 1)
    IN  S[Cardinality(fs)]

\* dict keys in insertion order: the flows in order of first appearance
FlowKeys(pk) ==
    LET F[k \in 0..Len(pk)] ==
            IF k = 0 THEN <<>>
            ELSE IF \E j \in 1..Len(F[k - 1]) : F[k - 1][j] = pk[k].flow
                 THEN F[k - 1]
                 ELSE Append(F[k - 1], pk[k].flow)
    IN  F[Len(pk)]

\* The flows, as a set
Flows == {keys[k] : k \in 1..Len(keys)}

\* any(len(queue) > 0 for queue in self.flow_queues.values())
AnyQueued(fq) == \E f \in DOMAIN fq : Len(fq[f]) > 0
ActiveFlows(fq) == {f \in DOMAIN fq : Len(fq[f]) > 0}

\* ------------------------------------------------- QueueingSimulator
\* Mutant of append: the packet is put at the front of the queue
append_front(q, p) == <<p>> \o q

\* list.append of enqueue_packets
append(q, p) == Append(q, p)

\* Mutant of enqueue_packets: the arrival times are not compared with the clock
RECURSIVE enqueue_packets_all(_, _, _)
enqueue_packets_all(pa, fq, t) ==
    IF Len(pa) > 0
    THEN enqueue_packets_all(Tail(pa),
                             [fq EXCEPT ![packets[pa[1]].flow] = append(@, pa[1])], t)
    ELSE [packet_arrivals |-> pa, flow_queues |-> fq]

\* enqueue_packets: move the due packets from the feed to their flow's queue
RECURSIVE enqueue_packets(_, _, _)
enqueue_packets(pa, fq, t) ==
    IF Len(pa) > 0 /\ packets[pa[1]].time <= t
    THEN enqueue_packets(Tail(pa),
                         [fq EXCEPT ![packets[pa[1]].flow] = append(@, pa[1])], t)
    ELSE [packet_arrivals |-> pa, flow_queues |-> fq]

\* Mutant of finish_sent_bits: = for +=
finish_sent_bits_assign(sb, p) ==
    [sb EXCEPT ![packets[p].flow] = packets[p].size]

\* finish_packet, first statement
finish_sent_bits(sb, p) ==
    [sb EXCEPT ![packets[p].flow] = @ + packets[p].size]

\* Mutant of finish_delays: a delay of zero is not recorded
finish_delays_nonzero(dl, p, t) ==
    LET d == t - packets[p].time - (packets[p].size \div data_rate)
    IN  IF d = 0 THEN dl ELSE [dl EXCEPT ![packets[p].flow] = Append(@, d)]

\* finish_packet, second statement
finish_delays(dl, p, t) ==
    [dl EXCEPT ![packets[p].flow] =
        Append(@, t - packets[p].time - (packets[p].size \div data_rate))]

\* The fields __init__ sets, for a list pk of packets
Constructed(pk) ==
    LET ks == FlowKeys(pk)
        fs == {ks[k] : k \in 1..Len(ks)}
    IN  [time |-> pk[1].time,
         packet_arrivals |-> [k \in 1..Len(pk) |-> k],
         flow_queues |-> [f \in fs |-> <<>>],
         sent_bits_per_flow |-> [f \in fs |-> 0],
         packet_delays_per_flow |-> [f \in fs |-> <<>>],
         deficit_counters |-> [f \in fs |-> 0]]

\* The first position of each simulator's run
StartPc(s) == CASE s = 1 -> "gps_outer" [] s = 2 -> "rr_outer" [] OTHER -> "drr_outer"

NoDiff == [cur |-> 0, lo |-> 0, hi |-> 0]

\* No iteration of the outer while has started
NoIteration == [ran |-> FALSE]

\* The measures of progress as an iteration of the outer while starts
IterationStart ==
    [ran |-> TRUE,
     packet_arrivals |-> Len(packet_arrivals),
     finished |-> Len(finished),
     time |-> time,
     deficit_counters |-> deficit_counters]

\* The driver has built the three simulators from the list packets and the
\* first of them is about to run
Built ==
    /\ remaining_size = [k \in 1..Len(packets) |-> packets[k].size]
    /\ sim = 1
    /\ pc = StartPc(1)
    /\ time = Constructed(packets).time
    /\ packet_arrivals = Constructed(packets).packet_arrivals
    /\ flow_queues = Constructed(packets).flow_queues
    /\ keys = FlowKeys(packets)
    /\ sent_bits_per_flow = Constructed(packets).sent_bits_per_flow
    /\ packet_delays_per_flow = Constructed(packets).packet_delays_per_flow
    /\ deficit_counters = Constructed(packets).deficit_counters
    /\ next_packet_time = packets[1].time
    /\ time_until_next_packet = 0
    /\ i = 0
    /\ results = <<>>
    /\ finished = <<>>
    /\ pass_no = 0
    /\ deadline = [k \in 1..Len(packets) |-> 0]
    /\ pass_sent = [f \in Flows |-> 0]
    /\ gps_diff = [pr \in Flows \X Flows |-> NoDiff]
    /\ iter_start = NoIteration
    /\ idle_skipped = 0

Init ==
    /\ \E n \in 1..MaxPackets : packets \in Inputs(n)
    /\ quantum \in 1..MaxQuantum
    /\ Built

\* A constructor has raised: packet_arrivals[0] of an empty list is an
\* IndexError, and the driver stops there
Raised ==
    /\ remaining_size = <<>>
    /\ sim = 1
    /\ pc = "error"
    /\ time = None
    /\ packet_arrivals = <<>>
    /\ flow_queues = <<>>
    /\ keys = <<>>
    /\ sent_bits_per_flow = <<>>
    /\ packet_delays_per_flow = <<>>
    /\ deficit_counters = <<>>
    /\ next_packet_time = None
    /\ time_until_next_packet = 0
    /\ i = 0
    /\ results = <<>>
    /\ finished = <<>>
    /\ pass_no = 0
    /\ deadline = <<>>
    /\ pass_sent = <<>>
    /\ gps_diff = <<>>
    /\ iter_start = NoIteration
    /\ idle_skipped = 0

\* The constructors called with any list of packets, the empty one included,
\* and any quantum from 0 on: they check neither
ConfigInit ==
    /\ \E n \in 0..MaxPackets : packets \in Inputs(n)
    /\ quantum \in 0..MaxQuantum
    /\ IF packets = <<>> THEN Raised ELSE Built

\* ------------------------------------------------------------ histories
\* gps_diff after a step that leaves the queues fq and grants g[f] units to flow f
DiffAfter(fq, g) ==
    [pr \in Flows \X Flows |->
        IF Len(fq[pr[1]]) > 0 /\ Len(fq[pr[2]]) > 0
        THEN LET c == gps_diff[pr].cur + g[pr[1]] - g[pr[2]]
             IN  [cur |-> c, lo |-> Min(gps_diff[pr].lo, c), hi |-> Max(gps_diff[pr].hi, c)]
        ELSE NoDiff]

NoGrant == [f \in Flows |-> 0]

\* ---------------------------------------------------------- GPSSimulator
\* time_until_next_packet = (next_packet_time or sys.maxsize) - self.time
TimeUntil(npt, t) == (IF npt = None \/ npt = 0 THEN sys_maxsize ELSE npt) - t

\* Mutant of number_of_active_flows: a round is taken to cost one unit
number_of_active_flows_one(fq) == 1

\* Mutant of number_of_active_flows: the empty queues are counted too
number_of_active_flows_all(fq) == Cardinality(DOMAIN fq)

number_of_active_flows(fq) == Cardinality(ActiveFlows(fq))

fully_skippable_rounds(tu, n) == tu \div n

\* Mutant of skippable_rounds_until_packet_finishes: the whole remaining size
skippable_rounds_until_packet_finishes_whole(fq, rem) ==
    MinOf({Max(rem[fq[f][1]], 0) : f \in ActiveFlows(fq)})

skippable_rounds_until_packet_finishes(fq, rem) ==
    MinOf({Max(rem[fq[f][1]] - 1, 0) : f \in ActiveFlows(fq)})

\* Mutant of skippable_rounds: the remaining sizes are not looked at
skippable_rounds_to_arrival(npt, t, fq, rem) ==
    fully_skippable_rounds(TimeUntil(npt, t), number_of_active_flows(fq))

skippable_rounds(npt, t, fq, rem) ==
    Min(fully_skippable_rounds(TimeUntil(npt, t), number_of_active_flows(fq)),
        skippable_rounds_until_packet_finishes(fq, rem))

\* while condition of the inner loop
GPSInnerCond ==
    /\ next_packet_time = None \/ time < next_packet_time
    /\ AnyQueued(flow_queues)

\* One flow's step of either for loop of GPS: the head of flow f loses k units
\* and is finished and popped when nothing remains of it.  S holds the fields
\* the loop changes; t is self.time.
GPSServe(S, f, k, t) ==
    LET p == S.flow_queues[f][1]
        r == S.remaining_size[p] - k
    IN  IF r = 0
        THEN [remaining_size |-> [S.remaining_size EXCEPT ![p] = r],
              flow_queues |-> [S.flow_queues EXCEPT ![f] = Tail(@)],
              sent_bits_per_flow |-> finish_sent_bits(S.sent_bits_per_flow, p),
              packet_delays_per_flow |-> finish_delays(S.packet_delays_per_flow, p, t),
              finished |-> Append(S.finished, p)]
        ELSE [S EXCEPT !.remaining_size = [S.remaining_size EXCEPT ![p] = r]]

\* for queue in self.flow_queues.values() of the skip branch, from position k on
RECURSIVE GPSSkipLoop(_, _, _, _)
GPSSkipLoop(S, k, rounds, t) ==
    IF k > Len(keys) THEN S
    ELSE IF Len(S.flow_queues[keys[k]]) > 0
         THEN GPSSkipLoop(GPSServe(S, keys[k], rounds, t), k + 1, rounds, t)
         ELSE GPSSkipLoop(S, k + 1, rounds, t)

Fields ==
    [remaining_size |-> remaining_size,
     flow_queues |-> flow_queues,
     sent_bits_per_flow |-> sent_bits_per_flow,
     packet_delays_per_flow |-> packet_delays_per_flow,
     finished |-> finished]

\* ------------------------------------------- GPS by unit steps only
\* GPSSimulator.run with skippable_rounds taken as 0 in every iteration of the
\* inner while, so that only the unit pass is used.  U holds the simulator:
\* U.fields as Fields, U.time and U.packet_arrivals.
RECURSIVE UnitPass(_, _, _)
RECURSIVE UnitInner(_, _)
RECURSIVE UnitOuter(_)

\* for queue in self.flow_queues.values() of the unit pass, from position k
\* on, with tu the local time_until_next_packet
UnitPass(U, k, tu) ==
    IF k > Len(keys) \/ tu = 0 THEN U
    ELSE IF Len(U.fields.flow_queues[keys[k]]) > 0
         THEN LET t == U.time + (1 \div data_rate)
              IN  UnitPass([U EXCEPT !.time = t,
                                     !.fields = GPSServe(U.fields, keys[k], 1, t)],
                           k + 1, tu - (1 \div data_rate))
         ELSE UnitPass(U, k + 1, tu)

\* The inner while, and the jump to the next packet time after it
UnitInner(U, npt) ==
    IF (npt = None \/ U.time < npt) /\ AnyQueued(U.fields.flow_queues)
    THEN UnitInner(UnitPass(U, 1, TimeUntil(npt, U.time)), npt)
    ELSE UnitOuter([U EXCEPT !.time = IF npt # None /\ npt > U.time THEN npt ELSE @])

\* The outer while
UnitOuter(U) ==
    IF Len(U.packet_arrivals) > 0 \/ AnyQueued(U.fields.flow_queues)
    THEN LET e == enqueue_packets(U.packet_arrivals, U.fields.flow_queues, U.time)
         IN  UnitInner([U EXCEPT !.packet_arrivals = e.packet_arrivals,
                                 !.fields.flow_queues = e.flow_queues],
                       IF Len(e.packet_arrivals) > 0
                       THEN packets[e.packet_arrivals[1]].time ELSE None)
    ELSE U

\* The simulator after run by unit steps, from its constructed state
UnitRun ==
    UnitOuter([time |-> Constructed(packets).time,
               packet_arrivals |-> Constructed(packets).packet_arrivals,
               fields |-> [remaining_size |-> [k \in 1..Len(packets) |-> packets[k].size],
                           flow_queues |-> Constructed(packets).flow_queues,
                           sent_bits_per_flow |-> Constructed(packets).sent_bits_per_flow,
                           packet_delays_per_flow |->
                               Constructed(packets).packet_delays_per_flow,
                           finished |-> <<>>]])

\* The outer while: its test, enqueue_packets and next_packet_time
GPSOuter ==
    /\ pc = "gps_outer"
    /\ IF Len(packet_arrivals) > 0 \/ AnyQueued(flow_queues)
       THEN LET e == enqueue_packets(packet_arrivals, flow_queues, time)
            IN  /\ packet_arrivals' = e.packet_arrivals
                /\ flow_queues' = e.flow_queues
                /\ next_packet_time' =
                       IF Len(e.packet_arrivals) > 0
                       THEN packets[e.packet_arrivals[1]].time ELSE None
                /\ gps_diff' = DiffAfter(e.flow_queues, NoGrant)
                /\ pc' = "gps_inner"
                /\ iter_start' = IterationStart
       ELSE /\ pc' = "done"
            /\ UNCHANGED <<packet_arrivals, flow_queues, next_packet_time, gps_diff, iter_start>>
    /\ UNCHANGED <<packets, keys, quantum, remaining_size, sim, time, sent_bits_per_flow,
                   packet_delays_per_flow, deficit_counters, time_until_next_packet,
                   i, results, finished, pass_no, deadline, pass_sent>>
    /\ UNCHANGED idle_skipped

\* The inner while holds and no round can be skipped: start the pass that
\* sends one unit of each active flow
GPSStartUnitPass ==
    /\ pc = "gps_inner"
    /\ GPSInnerCond
    /\ skippable_rounds(next_packet_time, time, flow_queues, remaining_size) = 0
    /\ time_until_next_packet' = TimeUntil(next_packet_time, time)
    /\ i' = 1
    /\ pc' = "gps_unit"
    /\ UNCHANGED <<packets, keys, quantum, remaining_size, sim, time, packet_arrivals,
                   flow_queues, sent_bits_per_flow, packet_delays_per_flow,
                   deficit_counters, next_packet_time, results, finished, pass_no,
                   deadline, pass_sent, gps_diff>>
    /\ UNCHANGED iter_start
    /\ UNCHANGED idle_skipped

\* The inner while holds and rounds can be skipped: the else branch
GPSSkipRounds ==
    /\ pc = "gps_inner"
    /\ GPSInnerCond
    /\ LET rounds == skippable_rounds(next_packet_time, time, flow_queues, remaining_size)
           t == time + (rounds \div data_rate) * number_of_active_flows(flow_queues)
           S == GPSSkipLoop(Fields, 1, rounds, t)
       IN  /\ rounds # 0
           /\ time' = t
           /\ remaining_size' = S.remaining_size
           /\ flow_queues' = S.flow_queues
           /\ sent_bits_per_flow' = S.sent_bits_per_flow
           /\ packet_delays_per_flow' = S.packet_delays_per_flow
           /\ finished' = S.finished
           /\ gps_diff' = DiffAfter(S.flow_queues, NoGrant)
    /\ time_until_next_packet' = TimeUntil(next_packet_time, time)
    /\ pc' = "gps_inner"
    /\ UNCHANGED <<packets, keys, quantum, sim, packet_arrivals, deficit_counters,
                   next_packet_time, i, results, pass_no, deadline, pass_sent>>
    /\ UNCHANGED iter_start
    /\ UNCHANGED idle_skipped

\* One iteration of the for loop of the unit pass
GPSUnit ==
    /\ pc = "gps_unit"
    /\ IF i > Len(keys) \/ time_until_next_packet = 0
       THEN /\ pc' = "gps_inner"
            /\ UNCHANGED <<time, time_until_next_packet, remaining_size, flow_queues,
                           sent_bits_per_flow, packet_delays_per_flow, finished,
                           gps_diff, i>>
       ELSE IF Len(flow_queues[keys[i]]) > 0
       THEN LET t == time + (1 \div data_rate)
                S == GPSServe(Fields, keys[i], 1, t)
            IN  /\ time' = t
                /\ time_until_next_packet' = time_until_next_packet - (1 \div data_rate)
                /\ remaining_size' = S.remaining_size
                /\ flow_queues' = S.flow_queues
                /\ sent_bits_per_flow' = S.sent_bits_per_flow
                /\ packet_delays_per_flow' = S.packet_delays_per_flow
                /\ finished' = S.finished
                /\ gps_diff' = DiffAfter(S.flow_queues, [NoGrant EXCEPT ![keys[i]] = 1])
                /\ i' = i + 1
                /\ pc' = "gps_unit"
       ELSE /\ i' = i + 1
            /\ pc' = "gps_unit"
            /\ UNCHANGED <<time, time_until_next_packet, remaining_size, flow_queues,
                           sent_bits_per_flow, packet_delays_per_flow, finished,
                           gps_diff>>
    /\ UNCHANGED <<packets, keys, quantum, sim, packet_arrivals, deficit_counters,
                   next_packet_time, results, pass_no, deadline, pass_sent>>
    /\ UNCHANGED iter_start
    /\ UNCHANGED idle_skipped

\* if next_packet_time is not None and next_packet_time > self.time
GPSJumpCond == next_packet_time # None /\ next_packet_time > time

\* The inner while ends: "If all packets finished, move time to the next
\* packet time", and back to the outer while
GPSJump ==
    /\ pc = "gps_inner"
    /\ ~GPSInnerCond
    /\ time' = IF GPSJumpCond THEN next_packet_time ELSE time
    /\ pc' = "gps_outer"
    /\ UNCHANGED <<packets, keys, quantum, remaining_size, sim, packet_arrivals,
                   flow_queues, sent_bits_per_flow, packet_delays_per_flow,
                   deficit_counters, next_packet_time, time_until_next_packet, i,
                   results, finished, pass_no, deadline, pass_sent, gps_diff>>
    /\ UNCHANGED iter_start
    /\ idle_skipped' = idle_skipped + (time' - time)

\* --------------------------------------------------- RoundRobinSimulator
\* Mutant of advance: one unit for the packet's size
advance_unit(t, p) == t + (1 \div data_rate)

\* self.time += packet.size / self.data_rate
advance(t, p) == t + (packets[p].size \div data_rate)

\* all(len(queue) == 0 for queue in self.flow_queues.values())
AllEmpty(fq) == \A f \in DOMAIN fq : Len(fq[f]) = 0

\* The rank of each queued packet at the start of a pass gives the pass by
\* which it must have been sent
DeadlineAfter(fq, pass) ==
    [p \in DOMAIN deadline |->
        LET f == packets[p].flow
            K == {k \in 1..Len(fq[f]) : fq[f][k] = p}
        IN  IF K = {} THEN deadline[p]
            ELSE LET d == pass + MinOf(K) - 1
                 IN  IF deadline[p] = 0 THEN d ELSE Min(deadline[p], d)]

\* The outer while: its test and enqueue_packets; a pass over the flows starts
RROuter ==
    /\ pc = "rr_outer"
    /\ IF Len(packet_arrivals) > 0 \/ AnyQueued(flow_queues)
       THEN LET e == enqueue_packets(packet_arrivals, flow_queues, time)
            IN  /\ packet_arrivals' = e.packet_arrivals
                /\ flow_queues' = e.flow_queues
                /\ pass_no' = pass_no + 1
                /\ deadline' = DeadlineAfter(e.flow_queues, pass_no + 1)
                /\ pass_sent' = [f \in Flows |-> 0]
                /\ i' = 1
                /\ pc' = "rr_for"
                /\ iter_start' = IterationStart
       ELSE /\ pc' = "done"
            /\ UNCHANGED <<packet_arrivals, flow_queues, pass_no, deadline, pass_sent, i, iter_start>>
    /\ UNCHANGED <<packets, keys, quantum, remaining_size, sim, time, sent_bits_per_flow,
                   packet_delays_per_flow, deficit_counters, next_packet_time,
                   time_until_next_packet, results, finished, gps_diff>>
    /\ UNCHANGED idle_skipped

\* One iteration of the for loop: the flow's head packet is sent whole
RRVisit ==
    /\ pc = "rr_for"
    /\ i <= Len(keys)
    /\ IF Len(flow_queues[keys[i]]) > 0
       THEN LET packet == flow_queues[keys[i]][1]
                t == advance(time, packet)
                e == enqueue_packets(packet_arrivals,
                                     [flow_queues EXCEPT ![keys[i]] = Tail(@)], t)
            IN  /\ time' = t
                /\ sent_bits_per_flow' = finish_sent_bits(sent_bits_per_flow, packet)
                /\ packet_delays_per_flow' =
                       finish_delays(packet_delays_per_flow, packet, t)
                /\ finished' = Append(finished, packet)
                /\ pass_sent' = [pass_sent EXCEPT ![keys[i]] = @ + 1]
                /\ packet_arrivals' = e.packet_arrivals
                /\ flow_queues' = e.flow_queues
       ELSE UNCHANGED <<time, sent_bits_per_flow, packet_delays_per_flow, finished,
                        pass_sent, packet_arrivals, flow_queues>>
    /\ i' = i + 1
    /\ pc' = "rr_for"
    /\ UNCHANGED <<packets, keys, quantum, remaining_size, sim, deficit_counters,
                   next_packet_time, time_until_next_packet, results, pass_no,
                   deadline, gps_diff>>
    /\ UNCHANGED iter_start
    /\ UNCHANGED idle_skipped

\* Mutant of IdleCond: the clock is never moved to the next arrival
IdleCond_never == FALSE

\* Mutant of IdleCond: the queues are not looked at
IdleCond_feed == Len(packet_arrivals) > 0

\* if len(self.packet_arrivals) > 0 and all(len(queue) == 0 ...)
IdleCond == Len(packet_arrivals) > 0 /\ AllEmpty(flow_queues)

\* Mutant of IdleTarget: one unit past the arrival
IdleTarget_late == packets[packet_arrivals[1]].time + 1

\* Mutant of IdleTarget: the first packet of the trace, not of the feed
IdleTarget_first == packets[1].time

\* self.time = self.packet_arrivals[0].time
IdleTarget == packets[packet_arrivals[1]].time

\* The for loop is over: "All flows might be empty, so skip time to the next
\* packet arrival", and back to the outer while
RRIdle ==
    /\ pc = "rr_for"
    /\ i > Len(keys)
    /\ time' = IF IdleCond THEN IdleTarget ELSE time
    /\ pc' = "rr_outer"
    /\ UNCHANGED <<packets, keys, quantum, remaining_size, sim, packet_arrivals,
                   flow_queues, sent_bits_per_flow, packet_delays_per_flow,
                   deficit_counters, next_packet_time, time_until_next_packet, i,
                   results, finished, pass_no, deadline, pass_sent, gps_diff>>
    /\ UNCHANGED iter_start
    /\ idle_skipped' = idle_skipped + (time' - time)

\* -------------------------------------------- DeficitRoundRobinSimulator
\* Mutant of DRRWhileCond: a packet costs twice its size
DRRWhileCond_double(q, d) == Len(q) > 0 /\ d >= 2 * packets[q[1]].size

\* Mutant of DRRWhileCond: > for >=
DRRWhileCond_strict(q, d) == Len(q) > 0 /\ d > packets[q[1]].size

\* Mutant of add_quantum: the quantum is added twice
add_quantum_double(dc, f) == [dc EXCEPT ![f] = @ + 2 * quantum]

\* Mutant of add_quantum: = for +=
add_quantum_assign(dc, f) == [dc EXCEPT ![f] = quantum]

\* self.deficit_counters[flow] += self.quantum
add_quantum(dc, f) == [dc EXCEPT ![f] = @ + quantum]

\* while len(queue) > 0 and self.deficit_counters[flow] >= queue[0].size
DRRWhileCond(q, d) == Len(q) > 0 /\ d >= packets[q[1]].size

\* The outer while: its test and enqueue_packets; a round starts
DRROuter ==
    /\ pc = "drr_outer"
    /\ IF Len(packet_arrivals) > 0 \/ AnyQueued(flow_queues)
       THEN LET e == enqueue_packets(packet_arrivals, flow_queues, time)
            IN  /\ packet_arrivals' = e.packet_arrivals
                /\ flow_queues' = e.flow_queues
                /\ i' = 1
                /\ pc' = "drr_for"
                /\ iter_start' = IterationStart
       ELSE /\ pc' = "done"
            /\ UNCHANGED <<packet_arrivals, flow_queues, i, iter_start>>
    /\ UNCHANGED <<packets, keys, quantum, remaining_size, sim, time, sent_bits_per_flow,
                   packet_delays_per_flow, deficit_counters, next_packet_time,
                   time_until_next_packet, results, finished, pass_no, deadline, pass_sent,
                   gps_diff>>
    /\ UNCHANGED idle_skipped

\* One iteration of the for loop, up to the inner while: a flow with packets
\* gets its quantum
DRRVisit ==
    /\ pc = "drr_for"
    /\ i <= Len(keys)
    /\ IF Len(flow_queues[keys[i]]) > 0
       THEN /\ deficit_counters' = add_quantum(deficit_counters, keys[i])
            /\ pc' = "drr_while"
            /\ i' = i
       ELSE /\ i' = i + 1
            /\ pc' = "drr_for"
            /\ UNCHANGED deficit_counters
    /\ UNCHANGED <<packets, keys, quantum, remaining_size, sim, time, packet_arrivals,
                   flow_queues, sent_bits_per_flow, packet_delays_per_flow,
                   next_packet_time, time_until_next_packet, results, finished,
                   pass_no, deadline, pass_sent, gps_diff>>
    /\ UNCHANGED iter_start
    /\ UNCHANGED idle_skipped

\* The inner while of a flow's turn: a packet is sent against the deficit
DRRSend ==
    /\ pc = "drr_while"
    /\ DRRWhileCond(flow_queues[keys[i]], deficit_counters[keys[i]])
    /\ LET packet == flow_queues[keys[i]][1]
           t == advance(time, packet)
       IN  /\ flow_queues' = [flow_queues EXCEPT ![keys[i]] = Tail(@)]
           /\ deficit_counters' =
                  [deficit_counters EXCEPT ![keys[i]] = @ - packets[packet].size]
           /\ time' = t
           /\ sent_bits_per_flow' = finish_sent_bits(sent_bits_per_flow, packet)
           /\ packet_delays_per_flow' = finish_delays(packet_delays_per_flow, packet, t)
           /\ finished' = Append(finished, packet)
    /\ pc' = "drr_while"
    /\ UNCHANGED <<packets, keys, quantum, remaining_size, sim, packet_arrivals,
                   next_packet_time, time_until_next_packet, i, results, pass_no,
                   deadline, pass_sent, gps_diff>>
    /\ UNCHANGED iter_start
    /\ UNCHANGED idle_skipped

\* The inner while ends: enqueue_packets, and on to the next flow
DRRTurnEnd ==
    /\ pc = "drr_while"
    /\ ~DRRWhileCond(flow_queues[keys[i]], deficit_counters[keys[i]])
    /\ LET e == enqueue_packets(packet_arrivals, flow_queues, time)
       IN  /\ packet_arrivals' = e.packet_arrivals
           /\ flow_queues' = e.flow_queues
    /\ i' = i + 1
    /\ pc' = "drr_for"
    /\ UNCHANGED <<packets, keys, quantum, remaining_size, sim, time, sent_bits_per_flow,
                   packet_delays_per_flow, deficit_counters, next_packet_time,
                   time_until_next_packet, results, finished, pass_no, deadline, pass_sent,
                   gps_diff>>
    /\ UNCHANGED iter_start
    /\ UNCHANGED idle_skipped

\* The for loop is over: the idle skip, and back to the outer while
DRRIdle ==
    /\ pc = "drr_for"
    /\ i > Len(keys)
    /\ time' = IF IdleCond THEN IdleTarget ELSE time
    /\ pc' = "drr_outer"
    /\ UNCHANGED <<packets, keys, quantum, remaining_size, sim, packet_arrivals,
                   flow_queues, sent_bits_per_flow, packet_delays_per_flow,
                   deficit_counters, next_packet_time, time_until_next_packet, i,
                   results, finished, pass_no, deadline, pass_sent, gps_diff>>
    /\ UNCHANGED iter_start
    /\ idle_skipped' = idle_skipped + (time' - time)

\* ------------------------------------------------------------------ main
\* for simulator in simulators: simulator.run(), then its results are read;
\* the next simulator is as its constructor left it
MainNext ==
    /\ pc = "done"
    /\ results' = Append(results,
                         [time |-> time,
                          sent_bits_per_flow |-> sent_bits_per_flow,
                          packet_delays_per_flow |-> packet_delays_per_flow])
    /\ IF sim < NumSims
       THEN /\ sim' = sim + 1
            /\ pc' = StartPc(sim + 1)
            /\ time' = Constructed(packets).time
            /\ packet_arrivals' = Constructed(packets).packet_arrivals
            /\ flow_queues' = Constructed(packets).flow_queues
            /\ sent_bits_per_flow' = Constructed(packets).sent_bits_per_flow
            /\ packet_delays_per_flow' = Constructed(packets).packet_delays_per_flow
            /\ deficit_counters' = Constructed(packets).deficit_counters
            /\ finished' = <<>>
       ELSE /\ pc' = "exit"
            /\ UNCHANGED <<sim, time, packet_arrivals, flow_queues, sent_bits_per_flow,
                           packet_delays_per_flow, deficit_counters, finished>>
    /\ i' = 0
    /\ UNCHANGED <<packets, keys, quantum, remaining_size, next_packet_time,
                   time_until_next_packet, pass_no, deadline, pass_sent, gps_diff>>
    /\ iter_start' = NoIteration
    /\ idle_skipped' = IF sim < NumSims THEN 0 ELSE idle_skipped

Next ==
    \/ GPSOuter
    \/ GPSStartUnitPass
    \/ GPSSkipRounds
    \/ GPSUnit
    \/ GPSJump
    \/ RROuter
    \/ RRVisit
    \/ RRIdle
    \/ DRROuter
    \/ DRRVisit
    \/ DRRSend
    \/ DRRTurnEnd
    \/ DRRIdle
    \/ MainNext

Spec == Init /\ [][Next]_vars

\* The program started on any configuration
ConfigSpec == ConfigInit /\ [][Next]_vars

\* run is sequential code: a step that can be taken is taken
LiveSpec == Spec /\ WF_vars(Next)

\* ================================================================ claims
\* The packets of flow f, by index
InFlow(f) == {k \in 1..Len(packets) : packets[k].flow = f}

RECURSIVE SumSizes(_)
SumSizes(S) ==
    IF S = {} THEN 0
    ELSE LET k == CHOOSE x \in S : TRUE IN packets[k].size + SumSizes(S \ {k})

Elems(q) == {q[k] : k \in 1..Len(q)}
Count(q, p) == Cardinality({k \in 1..Len(q) : q[k] = p})

RECURSIVE SumCounts(_, _)
SumCounts(F, p) ==
    IF F = {} THEN 0
    ELSE LET f == CHOOSE x \in F : TRUE
         IN  Count(flow_queues[f], p) + SumCounts(F \ {f}, p)

\* The subsequence of q of the packets of flow f
RECURSIVE OfFlow(_, _)
OfFlow(q, f) ==
    IF q = <<>> THEN <<>>
    ELSE IF packets[Head(q)].flow = f THEN <<Head(q)>> \o OfFlow(Tail(q), f)
         ELSE OfFlow(Tail(q), f)

\* run has returned
Returned == pc = "done"

\* C1: when run returns (GPS, RR or DRR), sent_bits of every flow is the sum
\* of the sizes of the flow's input packets, the flow has one delay sample
\* per input packet, and the sent bits add up to the total input size.
C1_MetricsOnReturn ==
    Returned =>
        /\ \A f \in Flows :
              /\ sent_bits_per_flow[f] = SumSizes(InFlow(f))
              /\ Len(packet_delays_per_flow[f]) = Cardinality(InFlow(f))
        /\ SumSeq([k \in 1..Len(keys) |-> sent_bits_per_flow[keys[k]]])
              = SumSeq([k \in 1..Len(packets) |-> packets[k].size])

\* A run of the last simulator has returned on a trace of three packets of
\* two flows, one flow with two packets of different sizes
C1_Witness ==
    /\ Returned /\ sim = NumSims
    /\ Len(packets) = 3 /\ Len(keys) = 2
    /\ \E a, b \in 1..3 : /\ a # b /\ packets[a].flow = packets[b].flow
                          /\ packets[a].size # packets[b].size

\* Each packet is in the feed, in a queue or finished, once
C2_OnePlace ==
    \A p \in 1..Len(packets) :
        /\ Count(packet_arrivals, p) + SumCounts(Flows, p) + Count(finished, p) = 1
        /\ \A f \in Flows : Count(flow_queues[f], p) > 0 => packets[p].flow = f

\* The packets of flow f that have left its queue
LeftQueue(f) ==
    {p \in InFlow(f) : p \notin Elems(packet_arrivals) /\ p \notin Elems(flow_queues[f])}

C2_SamplesMatch ==
    \A f \in Flows : Len(packet_delays_per_flow[f]) = Cardinality(LeftQueue(f))

\* A step of a run that calls finish_packet calls it for the head of a queue,
\* which the step removes
C2_FinishStep ==
    (sim' = sim /\ finished' # finished) =>
        \E p \in 1..Len(packets) :
            /\ finished' = Append(finished, p)
            /\ p \notin Elems(finished)
            /\ flow_queues[packets[p].flow] # <<>>
            /\ flow_queues[packets[p].flow][1] = p
            /\ p \notin Elems(flow_queues'[packets[p].flow])

\* C2: in every state of every run each input packet is in exactly one place
\* (the feed, its own flow's queue, finished); finish_packet is called at most
\* once per packet and only by the step that removes it from its queue, so a
\* flow has as many delay samples as packets that have left its queue.
C2_ExclusiveOwnership ==
    /\ [](C2_OnePlace /\ C2_SamplesMatch)
    /\ [][C2_FinishStep]_vars

\* In a run, one packet is in the feed, one queued and one finished
C2_Witness ==
    /\ pc \notin {"done", "exit"}
    /\ Len(packet_arrivals) = 1
    /\ Len(finished) = 1
    /\ \E f \in Flows : Len(flow_queues[f]) = 1

\* C3: run terminates for each discipline, for every quantum (also one
\* smaller than the packets), and on return the feed and every queue are
\* empty.
C3_Terminates ==
    /\ <>(pc = "exit")
    /\ [](Returned => packet_arrivals = <<>> /\ AllEmpty(flow_queues))

\* The DRR run has returned with a quantum smaller than every packet
C3_Witness ==
    /\ Returned /\ sim = NumSims
    /\ Len(packets) >= 2
    /\ \A k \in 1..Len(packets) : quantum < packets[k].size
    /\ packet_arrivals = <<>> /\ AllEmpty(flow_queues)

IsIncreasing(q) == \A a, b \in 1..Len(q) : a < b => q[a] < q[b]

\* C4: the packets of a flow complete in arrival order: the finished packets
\* of the flow, then its queue, then its packets in the feed are the flow's
\* packets in the order of the arrival sequence.
C4_FifoPerFlow ==
    \A f \in Flows :
        IsIncreasing(OfFlow(finished, f) \o flow_queues[f] \o OfFlow(packet_arrivals, f))

\* Two packets of one flow have finished, in a trace of two flows
C4_Witness ==
    \E f \in Flows : Len(OfFlow(finished, f)) >= 2 /\ Len(keys) = 2

\* C5: the clock starts at the first arrival's time in each discipline, no
\* step of a run decreases it, and on return it is >= every arrival time.
C5_ClockMonotonic ==
    /\ time = packets[1].time
    /\ [][/\ sim' # sim => time' = packets[1].time
          /\ sim' = sim => time' >= time]_vars
    /\ [](Returned => \A k \in 1..Len(packets) : time >= packets[k].time)

\* A run has returned on a trace whose first arrival is after time 0 and
\* whose last arrival is later still
C5_Witness ==
    /\ Returned
    /\ packets[1].time > 0
    /\ packets[Len(packets)].time > packets[1].time
    /\ time > packets[Len(packets)].time

\* The feed holds a packet that has arrived (the feed is sorted by time)
FeedDue == Len(packet_arrivals) > 0 /\ packets[packet_arrivals[1]].time <= time

\* The positions where run tests a queue or picks a head packet to serve
SchedulingDecision ==
    \/ pc = "gps_inner" /\ (next_packet_time = None \/ time < next_packet_time)
    \/ pc = "gps_unit" /\ i <= Len(keys) /\ time_until_next_packet # 0
    \/ pc = "rr_for" /\ i <= Len(keys)
    \/ pc = "drr_for" /\ i <= Len(keys)
    \/ pc = "drr_while"

\* C6: whenever a scheduler tests a flow's queue or picks a head packet
\* (DRR's repeated test inside a turn and GPS's next unit grant included),
\* the feed holds no packet with arrival_time <= clock.
C6_IntakeBeforeDecision == SchedulingDecision => ~FeedDue

\* A step that sets the clock without serving
IdleSkipStep ==
    /\ sim' = sim
    /\ time' # time
    /\ finished' = finished
    /\ remaining_size' = remaining_size

\* C7: the clock is set to an arrival time without serving only when every
\* queue is empty and the feed is not, and then to the time of the feed's
\* front packet; the GPS jump never fires while a queue is non-empty.
C7_IdleSkipOnlyWhenIdle ==
    [][IdleSkipStep =>
          /\ AllEmpty(flow_queues)
          /\ Len(packet_arrivals) > 0
          /\ time' = packets[packet_arrivals[1]].time]_vars

\* GPS has jumped: the queues are empty, the clock is at the front arrival
\* and is later than the work done so far accounts for
C7_Witness ==
    /\ sim = 1 /\ pc = "gps_outer"
    /\ AllEmpty(flow_queues)
    /\ Len(packet_arrivals) > 0
    /\ time = packets[packet_arrivals[1]].time
    /\ finished # <<>>
    /\ time > packets[1].time + SumSizes(Elems(finished))

\* C8: two flows of a GPS run that are both active throughout an interval
\* are granted numbers of units that differ by at most one in the interval.
C8_EqualSharing ==
    sim = 1 => \A pr \in Flows \X Flows : gps_diff[pr].hi - gps_diff[pr].lo <= 1

\* A visit of the RR pass sends the head of a non-empty queue, whole, and
\* nothing of an empty one
C9_VisitSendsHead ==
    (pc = "rr_for" /\ i <= Len(keys)) =>
        LET f == keys[i]
            q == flow_queues[f]
        IN  IF q # <<>>
            THEN /\ finished' = Append(finished, q[1])
                 /\ time' = time + (packets[q[1]].size \div data_rate)
                 /\ SubSeq(flow_queues'[f], 1, Len(q) - 1) = Tail(q)
                 /\ Len(packet_delays_per_flow'[f]) = Len(packet_delays_per_flow[f]) + 1
                 /\ i' = i + 1
            ELSE /\ finished' = finished
                 /\ time' = time
                 /\ i' = i + 1

\* No flow sends twice in a pass, and a packet that was k-th in its queue at
\* the start of pass n is not queued after pass n + k - 1
C9_WithinKPasses ==
    sim = 2 =>
        /\ \A f \in Flows : pass_sent[f] <= 1
        /\ \A f \in Flows : \A p \in Elems(flow_queues[f]) :
              deadline[p] # 0 =>
                  /\ pass_no <= deadline[p]
                  /\ pc = "rr_outer" => pass_no < deadline[p]

\* C9: in every RR pass each flow whose queue is non-empty at its visit
\* sends exactly its head packet, whole, and no flow sends more than one; a
\* packet that is k-th in its queue at the start of a pass completes within
\* k passes.
C9_RoundRobinPass ==
    /\ [][C9_VisitSendsHead]_vars
    /\ [](C9_WithinKPasses)

\* The second packet of a queue at the start of pass 1 was sent in pass 2,
\* behind a larger packet of the other flow
C9_Witness ==
    /\ sim = 2 /\ pass_no = 2
    /\ \E p \in Elems(finished) :
          /\ packets[p].time = packets[1].time
          /\ deadline[p] = 2
          /\ finished[Len(finished)] = p
          /\ \E o \in Elems(finished) :
                packets[o].flow # packets[p].flow /\ packets[o].size > packets[p].size

\* C10: between two turns of DRR a flow with an empty queue has deficit
\* counter 0.
C10_DeficitResetOnEmpty ==
    (sim = NumSims /\ pc \in {"drr_for", "drr_outer"}) =>
        \A f \in Flows : flow_queues[f] = <<>> => deficit_counters[f] = 0

\* The flow whose turn it is in the for loop
Visited == keys[i]

\* The visit of a flow with a non-empty queue whose head is no larger than the
\* quantum leaves the inner while enabled for that head, in the same turn
C11_VisitEnablesHead ==
    (sim = NumSims /\ pc = "drr_for" /\ i <= Len(keys)
        /\ flow_queues[Visited] # <<>>
        /\ packets[flow_queues[Visited][1]].size <= quantum) =>
            /\ pc' = "drr_while" /\ i' = i
            /\ flow_queues'[Visited] = flow_queues[Visited]
            /\ deficit_counters'[Visited] >= packets[flow_queues[Visited][1]].size

\* Inside a turn, a head packet the counter covers is sent by the next step,
\* which stays in the turn
C11_CoveredHeadIsSent ==
    (pc = "drr_while" /\ flow_queues[Visited] # <<>>
        /\ deficit_counters[Visited] >= packets[flow_queues[Visited][1]].size) =>
            /\ finished' = Append(finished, flow_queues[Visited][1])
            /\ flow_queues'[Visited] = Tail(flow_queues[Visited])
            /\ pc' = "drr_while" /\ i' = i

\* C11: in DRR with quantum Q, a flow whose queue is non-empty at its visit
\* and whose head packet has size <= Q sends that head packet during the same
\* visit, whatever deficit it carried in and whatever the other flows hold.
C11_ServedWithinVisit ==
    /\ [][C11_VisitEnablesHead]_vars
    /\ [][C11_CoveredHeadIsSent]_vars

\* A flow that carried a positive deficit into its visit has sent a packet no
\* larger than the quantum in that visit, in a trace of two flows
C11_Witness ==
    /\ sim = NumSims /\ pc = "drr_while"
    /\ Len(keys) = 2
    /\ finished # <<>>
    /\ LET p == finished[Len(finished)]
       IN  /\ packets[p].flow = Visited
           /\ packets[p].size <= quantum
           /\ deficit_counters[Visited] + packets[p].size - quantum > 0

\* The delay samples of the running simulator and of those that have returned
AllDelays ==
    UNION {Elems(packet_delays_per_flow[f]) : f \in Flows}
    \cup UNION {Elems(results[s].packet_delays_per_flow[f]) :
                    f \in Flows, s \in 1..Len(results)}

\* No queued packet is ahead of the clock, and a packet of the feed that is
\* ahead of the clock has not been sent
C12_NoServiceBeforeArrival ==
    /\ \A f \in Flows : \A p \in Elems(flow_queues[f]) : packets[p].time <= time
    /\ \A p \in Elems(packet_arrivals) : p \notin Elems(finished)
    /\ sim = 1 => \A p \in Elems(packet_arrivals) : remaining_size[p] = packets[p].size

\* The units a GPS run has sent of a queued packet fit between its arrival
\* and the clock
C12_PartialService ==
    sim = 1 => \A f \in Flows : \A p \in Elems(flow_queues[f]) :
                  time >= packets[p].time + (packets[p].size - remaining_size[p])

\* C12: every delay sample recorded by finish_packet, in the three
\* disciplines, is >= 0: no packet is served before its arrival time and a
\* packet completes no earlier than arrival time + size / data_rate.
C12_DelaysNonNegative ==
    /\ \A d \in AllDelays : d >= 0
    /\ C12_NoServiceBeforeArrival
    /\ C12_PartialService

\* The last run has returned on a trace with a later arrival, with a packet
\* that waited and a packet that did not
C12_Witness ==
    /\ Returned /\ sim = NumSims
    /\ packets[Len(packets)].time > packets[1].time
    /\ \E d \in AllDelays : d > 0
    /\ \E f \in Flows : \E k \in 1..Len(packet_delays_per_flow[f]) :
          packet_delays_per_flow[f][k] = 0

\* The time at which packet p was finished in the run that has returned:
\* the samples of a flow are in the order of its packets (FIFO per flow)
Completion(p) ==
    LET f == packets[p].flow
        k == Cardinality({q \in InFlow(f) : q <= p})
    IN  packet_delays_per_flow[f][k] + packets[p].time + (packets[p].size \div data_rate)

\* The last packet of the trace
LastPacket == Len(packets)

\* Every packet but the last has completed strictly before the last arrives
\* (so the last is alone at its arrival time and finds the queues empty)
LateSingleArrival ==
    \A p \in 1..(LastPacket - 1) : Completion(p) < packets[LastPacket].time

\* C13: in each discipline, when the last packet of the input arrives at T,
\* alone, after every earlier packet has completed strictly before T, the
\* final clock is T + size / data_rate of that packet and its delay is 0.
C13_IdleSkipCorrect ==
    (Returned /\ LateSingleArrival) =>
        /\ time = packets[LastPacket].time + (packets[LastPacket].size \div data_rate)
        /\ Completion(LastPacket) = time
        /\ LET f == packets[LastPacket].flow
           IN  packet_delays_per_flow[f][Len(packet_delays_per_flow[f])] = 0

\* A run has returned on a trace whose last packet, larger than the quantum,
\* arrived after the link had been idle
C13_Witness ==
    /\ Returned /\ sim = NumSims
    /\ LastPacket >= 2
    /\ LateSingleArrival
    /\ packets[LastPacket].size > quantum

\* The trace is two packets of equal size, of two flows, arriving together
\* (the link is otherwise idle)
TwoEqualFlows ==
    /\ Len(packets) = 2
    /\ packets[1].flow # packets[2].flow
    /\ packets[1].size = packets[2].size
    /\ packets[1].time = packets[2].time

\* C14: two flows whose equal-size packets arrive at the same time on an
\* otherwise idle link finish together in GPS, at arrival time + 2 * size,
\* and get the same recorded delay, the packet's size (for two packets of
\* size 100 at time 0: both finish at 200, each with delay 100).
C14_EqualDelays ==
    (sim = 1 /\ Returned /\ TwoEqualFlows) =>
        /\ time = packets[1].time + 2 * (packets[1].size \div data_rate)
        /\ packet_delays_per_flow[packets[1].flow] = packet_delays_per_flow[packets[2].flow]
        /\ packet_delays_per_flow[packets[1].flow] = <<packets[1].size \div data_rate>>

\* Every flow has at most one packet and the quantum covers every packet
OnePacketPerFlow ==
    /\ \A f \in Flows : Cardinality(InFlow(f)) <= 1
    /\ \A p \in 1..Len(packets) : packets[p].size <= quantum

\* What main reads from the RR simulator
RRResult == results[2]

\* C15: on an input in which every flow has at most one packet and the
\* quantum is >= every packet size, DRR and RR record the same delays (so
\* the same completion time of every packet), sent bits and final clock; for
\* two packets of one size arriving together, the first flow's is sent with
\* delay 0 and the second's with the first's size as delay.
C15_DrrMatchesRr ==
    (sim = NumSims /\ Returned /\ OnePacketPerFlow) =>
        /\ time = RRResult.time
        /\ packet_delays_per_flow = RRResult.packet_delays_per_flow
        /\ sent_bits_per_flow = RRResult.sent_bits_per_flow
        /\ TwoEqualFlows =>
              /\ packet_delays_per_flow[packets[1].flow] = <<0>>
              /\ packet_delays_per_flow[packets[2].flow] = <<packets[1].size \div data_rate>>
              /\ time = packets[1].time + 2 * (packets[1].size \div data_rate)

\* DRR has returned on two packets of two flows, the first as large as the
\* quantum and the second smaller
C15_Witness ==
    /\ sim = NumSims /\ Returned /\ OnePacketPerFlow
    /\ Len(packets) = 2
    /\ packets[1].size = quantum
    /\ packets[2].size < quantum

\* C16: a scheduler constructed with an empty arrival sequence, a
\* non-positive capacity, a negative packet size or (DRR) a non-positive
\* quantum is in an error state before any scheduling step: run is never
\* executed on such input.
C16_InvalidRejected ==
    /\ (packets = <<>> \/ data_rate <= 0 \/ \E k \in 1..Len(packets) : packets[k].size < 0)
          => pc = "error"
    /\ quantum <= 0 => (sim = NumSims => pc = "error")

\* The place of the first packet of flow f in the input
FirstIndex(f) == MinOf(InFlow(f))

\* The order of iteration holds each flow of the input once, in the order in
\* which the flows first appear in the input
C17_KeysFirstSeen ==
    /\ Flows = {packets[k].flow : k \in 1..Len(packets)}
    /\ DOMAIN flow_queues = Flows
    /\ \A a, b \in 1..Len(keys) : a < b <=> FirstIndex(keys[a]) < FirstIndex(keys[b])

\* No step changes the order, and the three simulators have the same
C17_OrderFixed ==
    /\ keys' = keys
    /\ DOMAIN flow_queues' = DOMAIN flow_queues

\* A step of a pass serves the flow at the pass's position and moves on by
\* one position (DRR: stays for the rest of the turn)
C17_ServesAtPosition ==
    /\ (pc = "gps_unit" /\ remaining_size' # remaining_size) =>
          /\ flow_queues[Visited] # <<>>
          /\ \A p \in 1..Len(packets) :
                remaining_size'[p] # remaining_size[p] => p = flow_queues[Visited][1]
          /\ i' = i + 1
    /\ (pc = "rr_for" /\ finished' # finished) =>
          /\ packets[finished'[Len(finished')]].flow = Visited
          /\ i' = i + 1
    /\ (pc = "drr_while" /\ finished' # finished) =>
          /\ packets[finished'[Len(finished')]].flow = Visited
          /\ i' = i
    /\ (pc \in {"gps_unit", "rr_for", "drr_for", "drr_while"} /\ pc' = pc) =>
          i' \in {i, i + 1}

\* In an RR pass the flows send in the order of their first appearance, and
\* the first to send is the first-seen of the flows queued at the pass start
C17_RRTieBreak ==
    (pc = "rr_for" /\ finished' # finished) =>
        LET f == packets[finished'[Len(finished')]].flow
        IN  /\ \A g \in Flows : pass_sent[g] > 0 => FirstIndex(g) < FirstIndex(f)
            /\ (\A g \in Flows : pass_sent[g] = 0) =>
                  \A g \in ActiveFlows(flow_queues) : FirstIndex(f) <= FirstIndex(g)

IterationEnded == pc \in {"gps_outer", "rr_outer", "drr_outer"} /\ iter_start.ran

\* The iteration that ended completed a packet, took a packet from the feed
\* or changed the clock
Progressed ==
    \/ Len(finished) > iter_start.finished
    \/ Len(packet_arrivals) < iter_start.packet_arrivals
    \/ time # iter_start.time

\* The iteration that ended added to the counter of a flow
Credited == \E f \in Flows : deficit_counters[f] > iter_start.deficit_counters[f]

\* C18 as stated: every iteration of the outer run loop of GPS, RR and DRR
\* completes at least one packet, removes at least one packet from the feed
\* or idle-skips to the next arrival: none leaves the feed, the finished
\* packets and the clock all unchanged.
C18_EveryIterationProgresses == IterationEnded => Progressed

\* C18: every iteration of the outer run loop of GPS and RR completes a
\* packet, removes a packet from the feed or moves the clock; an iteration of
\* DRR does so or adds the quantum to the counter of a flow with a non-empty
\* queue, and does so whenever the quantum is >= every packet size.
C18_ProgressOrCredit ==
    IterationEnded =>
        /\ Progressed \/ (sim = NumSims /\ Credited /\ AnyQueued(flow_queues))
        /\ (sim # NumSims \/ \A p \in 1..Len(packets) : packets[p].size <= quantum)
              => Progressed

\* A DRR iteration has ended in which the quantum was added and nothing sent
C18_Witness ==
    /\ sim = NumSims /\ IterationEnded
    /\ ~Progressed
    /\ Credited

\* The sizes of the packets flow f has sent since the current round started
SentThisRound(f) ==
    SumSizes({finished[k] : k \in (iter_start.finished + 1)..Len(finished)} \cap InFlow(f))

\* What flow f's counter has gained since the current round started
GainedThisRound(f) ==
    deficit_counters[f] + SentThisRound(f) - iter_start.deficit_counters[f]

\* The counters start at 0 and are never negative; in a round a flow's
\* counter gains the quantum once or not at all, and nothing before its visit
C19_CounterBalance ==
    sim = NumSims =>
        /\ (pc = "drr_outer" /\ ~iter_start.ran) =>
              \A f \in Flows : deficit_counters[f] = 0
        /\ \A f \in Flows : deficit_counters[f] >= 0
        /\ iter_start.ran => \A k \in 1..Len(keys) :
              /\ GainedThisRound(keys[k]) \in {0, quantum}
              /\ (pc = "drr_for" /\ k >= i) => GainedThisRound(keys[k]) = 0

\* A counter grows only by the visit of its flow, with a non-empty queue, by
\* the quantum; it shrinks only by the sending of the flow's head packet, by
\* that packet's size, which it covered
C19_CounterSteps ==
    sim = NumSims /\ sim' = sim =>
        /\ \A f \in Flows :
              /\ deficit_counters'[f] > deficit_counters[f] =>
                    /\ pc = "drr_for" /\ f = Visited /\ flow_queues[f] # <<>>
                    /\ deficit_counters'[f] = deficit_counters[f] + quantum
                    /\ finished' = finished
              /\ deficit_counters'[f] < deficit_counters[f] =>
                    /\ pc = "drr_while" /\ f = Visited /\ flow_queues[f] # <<>>
                    /\ finished' = Append(finished, flow_queues[f][1])
                    /\ deficit_counters[f] >= packets[flow_queues[f][1]].size
                    /\ deficit_counters'[f] =
                           deficit_counters[f] - packets[flow_queues[f][1]].size
        /\ finished' # finished =>
              deficit_counters'[Visited] < deficit_counters[Visited]
        /\ (pc = "drr_for" /\ i <= Len(keys) /\ flow_queues[Visited] # <<>>) =>
              deficit_counters'[Visited] > deficit_counters[Visited]

\* The inner while of a turn ends with the queue empty or with a counter
\* smaller than the head packet
C19_TurnEnd ==
    (pc = "drr_while" /\ pc' = "drr_for") =>
        (flow_queues[Visited] # <<>> =>
            deficit_counters[Visited] < packets[flow_queues[Visited][1]].size)

\* C19: a flow's deficit counter starts at 0, gains exactly the quantum once
\* per round and only when the flow's queue is non-empty at its visit, and
\* loses exactly the size of each packet sent; a packet is sent only when the
\* counter is >= its size, so the counter is never negative, and when the
\* sending of a flow's turn ends with a non-empty queue the counter is
\* smaller than the new head packet's size.
C19_CreditAccounting ==
    /\ [](C19_CounterBalance)
    /\ [][C19_CounterSteps /\ C19_TurnEnd]_vars

\* The sending of a turn is over: the flow sent a packet in this turn, kept a
\* positive counter and has a larger packet at the head of its queue
C19_Witness ==
    /\ sim = NumSims /\ pc = "drr_while"
    /\ flow_queues[Visited] # <<>>
    /\ deficit_counters[Visited] > 0
    /\ deficit_counters[Visited] < packets[flow_queues[Visited][1]].size
    /\ SentThisRound(Visited) > 0

\* A step of GPS that takes the skip branch of the inner while
BulkSkipStep == sim = 1 /\ pc = "gps_inner" /\ pc' = "gps_inner" /\ time' # time

\* The number of rounds a bulk skip has skipped: the clock moves by one unit
\* per round and active flow
SkippedRounds == (time' - time) \div (number_of_active_flows(flow_queues) * (1 \div data_rate))

\* C20: a bulk skip of k > 0 rounds of GPS completes no packet and passes no
\* arrival: it takes k units from every active head packet and from nothing
\* else, every active head keeps remaining >= 1, the active flows are the
\* same, and the clock, advanced by k * active_count / data_rate, is <= the
\* time of the next pending arrival.
C20_BulkSkipSafe ==
    [][BulkSkipStep =>
          /\ SkippedRounds > 0
          /\ time' = time + SkippedRounds * number_of_active_flows(flow_queues)
          /\ finished' = finished
          /\ flow_queues' = flow_queues
          /\ packet_arrivals' = packet_arrivals
          /\ \A f \in ActiveFlows(flow_queues) :
                /\ remaining_size'[flow_queues[f][1]]
                       = remaining_size[flow_queues[f][1]] - SkippedRounds
                /\ remaining_size'[flow_queues[f][1]] >= 1
          /\ \A p \in 1..Len(packets) :
                (\A f \in ActiveFlows(flow_queues) : p # flow_queues[f][1])
                    => remaining_size'[p] = remaining_size[p]
          /\ packet_arrivals # <<>> => time' <= packets[packet_arrivals[1]].time]_vars

\* GPS has skipped rounds up to a pending arrival: the time to the next
\* packet was computed before the clock moved, and the head packet is
\* partly sent
C20_Witness ==
    /\ sim = 1 /\ pc = "gps_inner"
    /\ packet_arrivals # <<>>
    /\ next_packet_time # None
    /\ time_until_next_packet + time > next_packet_time
    /\ time <= packets[packet_arrivals[1]].time
    /\ \E f \in ActiveFlows(flow_queues) :
          /\ remaining_size[flow_queues[f][1]] >= 1
          /\ remaining_size[flow_queues[f][1]] < packets[flow_queues[f][1]].size

\* In a GPS run a queued packet has 1 <= remaining <= size, only the head of
\* a queue is partly sent, the packets of the feed are untouched, a finished
\* packet has nothing remaining and no remaining size is negative
C21_RemainingInRange ==
    sim = 1 =>
        /\ \A f \in Flows : \A k \in 1..Len(flow_queues[f]) :
              LET p == flow_queues[f][k]
              IN  /\ 1 <= remaining_size[p]
                  /\ remaining_size[p] <= packets[p].size
                  /\ k > 1 => remaining_size[p] = packets[p].size
        /\ \A p \in Elems(packet_arrivals) : remaining_size[p] = packets[p].size
        /\ \A p \in Elems(finished) : remaining_size[p] = 0
        /\ \A p \in 1..Len(packets) : remaining_size[p] >= 0

\* The step of a GPS run that takes the last unit of a packet finishes it and
\* removes it from its queue, and no other step finishes a packet
C21_RemovedAtZero ==
    (sim = 1 /\ sim' = 1) =>
        \A p \in 1..Len(packets) :
            /\ (remaining_size[p] # 0 /\ remaining_size'[p] = 0) =>
                  /\ p \notin Elems(finished) /\ p \in Elems(finished')
                  /\ p \notin Elems(flow_queues'[packets[p].flow])
            /\ (p \notin Elems(finished) /\ p \in Elems(finished')) =>
                  (remaining_size[p] # 0 /\ remaining_size'[p] = 0)

\* C21: in every state of a GPS run (positive integer sizes) every queued
\* packet has 1 <= remaining <= size, every queued packet that is not the
\* head of its queue and every packet of the feed has remaining = size;
\* remaining is never negative and a packet is removed in the very step in
\* which its remaining reaches 0.
C21_RemainingService ==
    /\ [](C21_RemainingInRange)
    /\ [][C21_RemovedAtZero]_vars

\* In a GPS run the head of a queue is partly sent, a packet waits behind it
\* and another is still in the feed
C21_Witness ==
    /\ sim = 1
    /\ packet_arrivals # <<>>
    /\ \E f \in Flows :
          /\ Len(flow_queues[f]) >= 2
          /\ remaining_size[flow_queues[f][1]] < packets[flow_queues[f][1]].size

\* C22: GPS with bulk round-skipping gives the same result as the same
\* algorithm by unit steps only (skip count 0 in every iteration): the same
\* final clock, delay lists, sent bits and order of completion, so the same
\* completion time of every packet.
C22_SkipEqualsUnitStepping ==
    (sim = 1 /\ Returned) =>
        /\ time = UnitRun.time
        /\ packet_delays_per_flow = UnitRun.fields.packet_delays_per_flow
        /\ sent_bits_per_flow = UnitRun.fields.sent_bits_per_flow
        /\ finished = UnitRun.fields.finished
        /\ remaining_size = UnitRun.fields.remaining_size

\* GPS has returned from a run in which rounds were skipped up to a pending
\* arrival, which then shared the link with the packet partly sent
C22_Witness ==
    /\ sim = 1 /\ Returned
    /\ Len(keys) = 2
    /\ \E p \in 2..Len(packets) :
          /\ packets[p].flow # packets[1].flow
          /\ packets[1].size >= 3
          /\ packets[p].time - packets[1].time >= 2
          /\ Completion(1) > packets[p].time

\* The units of service the running simulator has granted so far: GPS sends
\* packets unit by unit, RR and DRR send them whole
Served ==
    IF sim = 1
    THEN SumSeq([p \in 1..Len(packets) |-> packets[p].size - remaining_size[p]])
    ELSE SumSizes(Elems(finished))

\* The clock is the first arrival time plus the service granted plus the time
\* jumped over while nothing was queued
C23_ClockAccounting ==
    time - packets[1].time = (Served \div data_rate) + idle_skipped

\* The simulators that have returned have the same final clock
C23_SameFinalClock ==
    Returned => \A s \in 1..Len(results) : results[s].time = time

\* C23: GPS, RR and DRR are work-conserving on the same link: on the same
\* arrival sequence they return the same final clock, and in every state of
\* a run clock - first arrival time is the service granted so far /
\* data_rate plus the time jumped over by idle skips.
C23_WorkConserving ==
    /\ C23_ClockAccounting
    /\ C23_SameFinalClock

\* The three runs have returned with one clock on a trace with an idle gap
\* between two flows, a quantum smaller than a packet, and delays that differ
\* between GPS and DRR
C23_Witness ==
    /\ Returned /\ sim = NumSims
    /\ Len(results) = 2
    /\ idle_skipped > 0
    /\ Len(keys) = 2
    /\ \E p \in 1..Len(packets) : packets[p].size > quantum
    /\ results[1].packet_delays_per_flow # packet_delays_per_flow
    /\ results[1].time = time /\ results[2].time = time

\* The simulators that have not run yet: each is as its constructor left it,
\* with every packet of the trace in its feed
Waiting == (sim + 1)..NumSims

\* The feed of a simulator that has not run yet
WaitingFeed(s) == Constructed(packets).packet_arrivals

\* C24: the runs are independent: while one simulator runs, every packet in
\* the feed of a simulator that has not run yet has all its fields,
\* remaining included, as they were parsed.
C24_RunsIndependent ==
    pc # "exit" =>
        \A s \in Waiting : \A p \in Elems(WaitingFeed(s)) :
            remaining_size[p] = packets[p].size

====
